---- MODULE Spec2Model ----
(***************************************************************************)
(* The reporting pipeline of status-client: class Reporter                 *)
(* (src/src/reporter/Reporter.ts) with its in-memory cache of failed       *)
(* reports, the failed-reports.json file behind it, report() calls and     *)
(* retryCachedReports() passes suspended at their awaits, and new          *)
(* processes that rebuild the Reporter from the file.                      *)
(*                                                                         *)
(* A CachedReport is a JavaScript object: the arrays that hold it          *)
(* (this.cache, the array a retry pass iterates, its failedReports) hold   *)
(* references.  A report payload is named by a number of Ids, a cached     *)
(* entry by the payload it wraps; the arrays are sequences of such names   *)
(* and the mutable fields live in the functions retryCount and timestamp.  *)
(***************************************************************************)
EXTENDS Integers, Sequences, FiniteSets, TLC

\* ------------------------------------------------------------------ bounds
MaxCacheSize == 2
MaxRetriesCfg == 2
MaxPayloads == 2
MaxStarts == 2
MaxTimers == 2
MaxCycles == 2
MaxUuids == 4
MaxBytes == 2
MaxTime == 1

\* getDefaultConfig()
DefaultReportInterval == 60000
DefaultMinReportInterval == 10000
DefaultMaxRetries == 3
DefaultCacheSize == 100
\* the largest delay of a Node.js timer, 2^31 - 1
TimeoutMax == 2147483647

Ids == 1..MaxPayloads

\* The callers of retryCachedReports(): MonitorClient.start() is the only one
\* (index.ts line 59), so one pass at a time is suspended at an await.
Callers == {"start"}

\* Outcomes of axios.post: an HTTP status, or 0 for a transport failure
\* (no response: connection refused, timeout, DNS).
Statuses == {0, 200, 300}

VARIABLES
  cacheSize,   \* config.cacheSize
  maxRetries,  \* config.maxRetries
  cache,       \* this.cache: the entries (by name), oldest first
  retryCount,  \* CachedReport.retryCount of each entry object
  timestamp,   \* CachedReport.timestamp of each entry object
  disk,        \* failed-reports.json: [state: "absent", "ok" or "invalid"
               \* (not JSON), text]
  diskOk,      \* whether fs.writeFileSync currently succeeds
  inflight,    \* payloads whose report() is suspended at await axios.post
  pass,        \* per caller: its retryCachedReports() pass suspended at await
  now,         \* Date.now(), as a logical clock that ticks when it is read
  nextId,      \* the next payload buildPayload() will produce
  sends,       \* history: retry POSTs submitted per entry that still exists,
               \* over all processes, counted up to maxRetries + 1
  cachedLog,   \* history: payloads cached so far, while only caching happened
  pure,        \* history: only cacheFailedReport ran since an empty start
  lastSaved,   \* history: the entries in memory at the last successful write
  writeLost,   \* history: the file misses a write (failed, or file damaged)
  lastOp,      \* history: the handler step that ran last, and its outcome
  isRunning,   \* MonitorClient.isRunning
  intervalId,  \* MonitorClient.intervalId: 0 for null, else the timer it holds
  timers,      \* the interval timers that are armed (setInterval .. clearInterval)
  staticInfo,  \* whether Reporter.staticInfo has been set
  starting,    \* start() calls suspended at await collector.collectStaticInfo()
  resuming,    \* start() calls whose await of retryCachedReports() is over
  collecting,  \* cycles suspended at await collector.collectDynamicStatus()
  lastCycle,   \* history: the client step that ran last, and its outcome
  dirExists,   \* whether the cache directory exists
  idFile,      \* client-id.txt: [state: "absent" or "ok", text]
  clientId,    \* Reporter.clientId
  uuids,       \* uuidv4() calls so far; call k returns the token Uuid(k)
  payloadId,   \* history: clientId of the payload a BuildPayload step returned
  persistedId, \* history: the first usable content of client-id.txt
  lastId,      \* history: the identity step that ran last, and its outcome
  impl,        \* which SystemCollector of the repository the process runs
  lastNetworkStats, \* its previous sample (lastNetSnapshot in part_003)
  netRates,    \* networkUpload, networkDownload of the last dynamic status
  lastSample,  \* history: the counters and time of the last derivation
  configFile,  \* config.json: [state, fields]
  loadedConfig, \* MonitorClient.config, and whether loadConfig() threw
  armedDelay   \* history: the delay ArmReportingTimer armed the timer with;
               \* 0 for none

config == <<cacheSize, maxRetries>>
memory == <<cache, retryCount, timestamp>>
storage == <<disk, lastSaved, writeLost>>
calls == <<inflight, pass>>
client == <<isRunning, intervalId, timers, staticInfo, starting, resuming,
            collecting, lastCycle>>
identity == <<dirExists, idFile, clientId, uuids, payloadId, persistedId,
              lastId>>
\* What is not the Reporter's cache machinery.
tracker == <<impl, lastNetworkStats, netRates, lastSample>>
settings == <<configFile, loadedConfig, armedDelay>>
others == <<client, identity, tracker, settings>>
vars == <<cacheSize, maxRetries, cache, retryCount, timestamp, disk, diskOk,
          inflight, pass, now, nextId, sends, cachedLog, pure,
          lastSaved, writeLost, lastOp, isRunning, intervalId, timers,
          staticInfo, starting, resuming, collecting, lastCycle,
          dirExists, idFile, clientId, uuids, payloadId, persistedId, lastId,
          impl, lastNetworkStats, netRates, lastSample,
          configFile, loadedConfig, armedDelay>>

\* ----------------------------------------------------------------- helpers
Range(s) == {s[i] : i \in 1..Len(s)}

InCache(id) == id \in Range(cache)

\* A pass that is not running.
IdlePass == [active |-> FALSE, arr |-> <<>>, shared |-> FALSE, i |-> 0,
             failed |-> <<>>, start |-> <<>>, posts |-> <<>>, results |-> <<>>,
             before |-> <<>>]

\* lastOp after a step nothing is recorded about. A report() step records its
\* payload, the status it got and whether it threw; the step that completes a
\* retry pass records the cache the pass started from, the entries it posted,
\* each post's outcome, how many retry POSTs each posted entry has had, and
\* the retryCount each entry of the starting cache had when the pass began.
NoOp == [op |-> "other", id |-> 0, status |-> 0, threw |-> FALSE,
         start |-> <<>>, posts |-> <<>>, results |-> <<>>, counts |-> <<>>,
         before |-> <<>>]

\* A faulty reading of the status test, which takes 300 for a success.
IsSuccessStatusUpTo300(status) == status >= 200 /\ status <= 300

\* response.status >= 200 && response.status < 300
IsSuccessStatus(status) == status >= 200 /\ status < 300

\* Array.prototype.slice(-n) for n >= 0: the last n elements; -0 is 0, so
\* slice(-0) is slice(0), the whole array.
SliceLast(arr, n) ==
  IF n = 0 THEN arr
  ELSE IF Len(arr) <= n THEN arr
  ELSE SubSeq(arr, Len(arr) - n + 1, Len(arr))

\* cacheFailedReport: this.cache.push(cachedReport), then the size limit.
PushAndLimit(arr, id) ==
  LET pushed == Append(arr, id)
  IN  IF Len(pushed) > cacheSize THEN SliceLast(pushed, cacheSize) ELSE pushed

\* cacheFailedReport: retryCount of a new CachedReport.
InitialRetryCount == 0

\* A faulty retry limit, off by one: the entry survives one failure more.
KeepAfterFailureInclusive(rc) == rc <= maxRetries

\* retryCachedReports: cachedReport.retryCount < this.config.maxRetries
KeepAfterFailure(rc) == rc < maxRetries

\* The CachedReport[] value of an array of entries.
Entries(arr, ts, rc) ==
  [i \in 1..Len(arr) |->
     [payload |-> arr[i], timestamp |-> ts[arr[i]], retryCount |-> rc[arr[i]]]]

\* A faulty serialisation, which writes every retry counter as 0.
StringifyWithoutRetryCount(arr, ts, rc) ==
  [i \in 1..Len(arr) |-> <<arr[i], ts[arr[i]], 0>>]

\* JSON.stringify(this.cache, null, 2): the text of the file, one item per
\* entry with its three members in declaration order.
Stringify(arr, ts, rc) ==
  [i \in 1..Len(arr) |-> <<arr[i], ts[arr[i]], rc[arr[i]]>>]

\* JSON.parse(cacheContent) as CachedReport[]
Parse(text) ==
  [i \in 1..Len(text) |->
     [payload |-> text[i][1], timestamp |-> text[i][2], retryCount |-> text[i][3]]]

\* A faulty constructor, which does not load the file.
LoadCacheFromDiskNever(d) == <<>>

\* loadCacheFromDisk: the entries a new Reporter starts with; without a file,
\* the initial []; when JSON.parse throws, the catch assigns [].
LoadCacheFromDisk(d) ==
  IF d.state = "ok" THEN Parse(d.text) ELSE <<>>

\* A faulty save, which does not write an empty array.
FileAfterSaveUnlessEmpty(arr, ts, rc) ==
  IF diskOk /\ Len(arr) > 0
  THEN [state |-> "ok", text |-> Stringify(arr, ts, rc)] ELSE disk

\* The file saveCacheToDisk leaves: writeFileSync of the whole array; a failure
\* is caught and logged, and the file keeps its previous content.
FileAfterSave(arr, ts, rc) ==
  IF diskOk THEN [state |-> "ok", text |-> Stringify(arr, ts, rc)] ELSE disk

SaveCacheToDisk(arr, ts, rc) ==
  /\ disk' = FileAfterSave(arr, ts, rc)
  /\ lastSaved' = IF diskOk THEN Entries(arr, ts, rc) ELSE lastSaved
  /\ writeLost' = ~diskOk

\* this.cache was assigned a new array: a pass iterating the old array no
\* longer sees pushes to this.cache.
Unshare(ps) == [c \in Callers |-> [ps[c] EXCEPT !.shared = FALSE]]

\* Entry objects some array still refers to, and entries the file holds.
Reachable(arr, ps) == Range(arr) \cup UNION {Range(ps[c].arr) : c \in Callers}
OnDisk(d) == {d.text[i][1] : i \in 1..Len(d.text)}

\* An object no array refers to is garbage: its fields read as 0, so that
\* states that differ only in garbage coincide.
Collect(f, live) == [x \in Ids |-> IF x \in live THEN f[x] ELSE 0]

\* One more retry POST of entry id.
Sent(f, id) == [f EXCEPT ![id] = IF @ <= maxRetries THEN @ + 1 ELSE @]

\* ------------------------------------------------- cacheFailedReport(payload)
\* A faulty cacheFailedReport, in which a failed write undoes the push.
CacheFailedReportBodyUnlessWriteFails(id, op, status, threw) ==
  LET pushed == Append(cache, id)
      kept   == PushAndLimit(cache, id)
      \* push mutates the array object: a pass iterating it sees the new entry
      seen == [c \in Callers |->
                 IF pass[c].active /\ pass[c].shared
                 THEN [pass[c] EXCEPT !.arr = Append(@, id)]
                 ELSE pass[c]]
      pass1 == IF Len(pushed) > cacheSize THEN Unshare(seen) ELSE seen
      live == Reachable(kept, pass1)
      rc1 == Collect([retryCount EXCEPT ![id] = InitialRetryCount], live)
      ts1 == Collect([timestamp EXCEPT ![id] = now], live)
  IN  /\ now' = now + 1
      /\ cache' = IF diskOk THEN kept ELSE cache
      /\ retryCount' = rc1
      /\ timestamp' = ts1
      /\ SaveCacheToDisk(kept, ts1, rc1)
      /\ pass' = pass1
      /\ sends' = Collect(sends, live \cup OnDisk(FileAfterSave(kept, ts1, rc1)))
      /\ cachedLog' = IF pure THEN Append(cachedLog, id) ELSE <<>>
      /\ lastOp' = [NoOp EXCEPT !.op = op, !.id = id, !.status = status,
                                !.threw = threw]
      /\ UNCHANGED <<config, diskOk, pure>>

CacheFailedReportBody(id, op, status, threw) ==
  LET pushed == Append(cache, id)
      kept   == PushAndLimit(cache, id)
      \* push mutates the array object: a pass iterating it sees the new entry
      seen == [c \in Callers |->
                 IF pass[c].active /\ pass[c].shared
                 THEN [pass[c] EXCEPT !.arr = Append(@, id)]
                 ELSE pass[c]]
      pass1 == IF Len(pushed) > cacheSize THEN Unshare(seen) ELSE seen
      live == Reachable(kept, pass1)
      rc1 == Collect([retryCount EXCEPT ![id] = InitialRetryCount], live)
      ts1 == Collect([timestamp EXCEPT ![id] = now], live)
  IN  /\ now' = now + 1
      /\ cache' = kept
      /\ retryCount' = rc1
      /\ timestamp' = ts1
      /\ SaveCacheToDisk(kept, ts1, rc1)
      /\ pass' = pass1
      /\ sends' = Collect(sends, live \cup OnDisk(FileAfterSave(kept, ts1, rc1)))
      /\ cachedLog' = IF pure THEN Append(cachedLog, id) ELSE <<>>
      /\ lastOp' = [NoOp EXCEPT !.op = op, !.id = id, !.status = status,
                                !.threw = threw]
      /\ UNCHANGED <<config, diskOk, pure>>

\* A direct call of the public method with a freshly built payload.
CacheFailedReport ==
  /\ nextId <= MaxPayloads
  /\ CacheFailedReportBody(nextId, "cache", 0, FALSE)
  /\ nextId' = nextId + 1
  /\ UNCHANGED <<inflight, others>>

\* ------------------------------------------------------------- clearCache()
ClearCacheBody(op, id, status) ==
  /\ IF Len(cache) > 0
     THEN LET pass1 == Unshare(pass)
              live == Reachable(<<>>, pass1)
          IN  /\ cache' = <<>>
              /\ retryCount' = Collect(retryCount, live)
              /\ timestamp' = Collect(timestamp, live)
              /\ SaveCacheToDisk(<<>>, timestamp, retryCount)
              /\ pass' = pass1
              /\ sends' = Collect(sends, live \cup
                                  OnDisk(FileAfterSave(<<>>, timestamp, retryCount)))
     ELSE UNCHANGED <<memory, storage, pass, sends>>
  /\ cachedLog' = <<>>
  /\ pure' = FALSE
  /\ lastOp' = [NoOp EXCEPT !.op = op, !.id = id, !.status = status]
  /\ UNCHANGED <<config, diskOk, now>>

ClearCache ==
  /\ ClearCacheBody("clear", 0, 0)
  /\ UNCHANGED <<inflight, nextId, others>>

\* ---------------------------------------------------------- report(payload)
\* Up to the await: axios.post is called with a freshly built payload.
ReportBeginBody ==
  /\ nextId <= MaxPayloads
  /\ inflight' = inflight \cup {nextId}
  /\ nextId' = nextId + 1
  /\ lastOp' = NoOp
  /\ UNCHANGED <<config, memory, storage, diskOk, pass, now, sends,
                 cachedLog, pure>>

ReportBegin == ReportBeginBody /\ UNCHANGED others

\* The await resumes with a 2xx response: clearCache(), normal completion.
ReportOkBody ==
  \E id \in inflight, status \in Statuses :
    /\ IsSuccessStatus(status)
    /\ inflight' = inflight \ {id}
    /\ ClearCacheBody("reportOk", id, status)
    /\ UNCHANGED nextId

ReportOk == ReportOkBody /\ UNCHANGED others

\* The await resumes with another status or rejects: the catch caches the
\* payload and rethrows.
ReportFailBody ==
  \E id \in inflight, status \in Statuses :
    /\ ~IsSuccessStatus(status)
    /\ inflight' = inflight \ {id}
    /\ CacheFailedReportBody(id, "reportFail", status, TRUE)
    /\ UNCHANGED nextId

ReportFail == ReportFailBody /\ UNCHANGED others

\* ------------------------------------------------------ retryCachedReports()
\* Up to the first await: nothing to do on an empty cache; otherwise the
\* for-of loop takes an iterator over the array this.cache refers to and posts
\* its first entry.
RetryBeginBody(c) ==
  /\ ~pass[c].active
  /\ IF Len(cache) = 0
     THEN /\ lastOp' = [NoOp EXCEPT !.op = "retryEnd"]
          /\ UNCHANGED <<pass, sends>>
     ELSE /\ pass' = [pass EXCEPT ![c] =
                        [active |-> TRUE, arr |-> cache, shared |-> TRUE, i |-> 1,
                         failed |-> <<>>, start |-> cache, posts |-> <<cache[1]>>,
                         results |-> <<>>,
                         before |-> [k \in 1..Len(cache) |->
                                       retryCount[cache[k]]]]]
          /\ sends' = Sent(sends, cache[1])
          /\ lastOp' = NoOp
  /\ cachedLog' = <<>>
  /\ pure' = FALSE
  /\ UNCHANGED <<config, memory, storage, diskOk, inflight, now, nextId>>

RetryBegin(c) == RetryBeginBody(c) /\ UNCHANGED others

\* A faulty loop body, which puts a failed entry at the front of failedReports
\* (unshift for push).
RetryResponseBodyUnshift(c) ==
  \E status \in Statuses :
    LET p  == pass[c]
        id == p.arr[p.i]
        ok == IsSuccessStatus(status)
        rc1 == IF ok THEN retryCount ELSE [retryCount EXCEPT ![id] = @ + 1]
        failed1 == IF ~ok /\ KeepAfterFailure(rc1[id])
                   THEN <<id>> \o p.failed ELSE p.failed
        results1 == Append(p.results, ok)
        passEnd == [Unshare(pass) EXCEPT ![c] = IdlePass]
        live == Reachable(failed1, passEnd)
    IN  /\ p.active
        /\ IF p.i + 1 <= Len(p.arr)
           THEN /\ pass' = [pass EXCEPT ![c] =
                              [p EXCEPT !.i = @ + 1, !.failed = failed1,
                                        !.posts = Append(@, p.arr[p.i + 1]),
                                        !.results = results1]]
                /\ retryCount' = rc1
                /\ sends' = Sent(sends, p.arr[p.i + 1])
                /\ lastOp' = NoOp
                /\ UNCHANGED <<cache, timestamp, storage>>
           ELSE /\ cache' = failed1
                /\ retryCount' = Collect(rc1, live)
                /\ timestamp' = Collect(timestamp, live)
                /\ SaveCacheToDisk(failed1, timestamp, rc1)
                /\ pass' = passEnd
                /\ sends' = Collect(sends, live \cup
                                    OnDisk(FileAfterSave(failed1, timestamp, rc1)))
                /\ lastOp' = [NoOp EXCEPT !.op = "retryEnd", !.start = p.start,
                                          !.posts = p.posts, !.results = results1,
                                          !.counts = [k \in 1..Len(p.posts) |->
                                                        sends[p.posts[k]]],
                                          !.before = p.before]
        /\ UNCHANGED <<config, diskOk, inflight, now, nextId, cachedLog, pure>>

\* A faulty loop body, in which a successful retry empties failedReports (the
\* way a successful report() clears the cache).
RetryResponseBodyClears(c) ==
  \E status \in Statuses :
    LET p  == pass[c]
        id == p.arr[p.i]
        ok == IsSuccessStatus(status)
        rc1 == IF ok THEN retryCount ELSE [retryCount EXCEPT ![id] = @ + 1]
        failed1 == IF ~ok /\ KeepAfterFailure(rc1[id])
                   THEN Append(p.failed, id)
                   ELSE IF ok THEN <<>> ELSE p.failed
        results1 == Append(p.results, ok)
        passEnd == [Unshare(pass) EXCEPT ![c] = IdlePass]
        live == Reachable(failed1, passEnd)
    IN  /\ p.active
        /\ IF p.i + 1 <= Len(p.arr)
           THEN /\ pass' = [pass EXCEPT ![c] =
                              [p EXCEPT !.i = @ + 1, !.failed = failed1,
                                        !.posts = Append(@, p.arr[p.i + 1]),
                                        !.results = results1]]
                /\ retryCount' = rc1
                /\ sends' = Sent(sends, p.arr[p.i + 1])
                /\ lastOp' = NoOp
                /\ UNCHANGED <<cache, timestamp, storage>>
           ELSE /\ cache' = failed1
                /\ retryCount' = Collect(rc1, live)
                /\ timestamp' = Collect(timestamp, live)
                /\ SaveCacheToDisk(failed1, timestamp, rc1)
                /\ pass' = passEnd
                /\ sends' = Collect(sends, live \cup
                                    OnDisk(FileAfterSave(failed1, timestamp, rc1)))
                /\ lastOp' = [NoOp EXCEPT !.op = "retryEnd", !.start = p.start,
                                          !.posts = p.posts, !.results = results1,
                                          !.counts = [k \in 1..Len(p.posts) |->
                                                        sends[p.posts[k]]],
                                          !.before = p.before]
        /\ UNCHANGED <<config, diskOk, inflight, now, nextId, cachedLog, pure>>

\* An await of the loop resumes: the entry's outcome is handled, then the loop
\* either posts the next entry of the iterated array or ends, and after the loop
\* this.cache = failedReports is saved.
RetryResponseBody(c) ==
  \E status \in Statuses :
    LET p  == pass[c]
        id == p.arr[p.i]
        ok == IsSuccessStatus(status)
        rc1 == IF ok THEN retryCount ELSE [retryCount EXCEPT ![id] = @ + 1]
        failed1 == IF ~ok /\ KeepAfterFailure(rc1[id])
                   THEN Append(p.failed, id) ELSE p.failed
        results1 == Append(p.results, ok)
        passEnd == [Unshare(pass) EXCEPT ![c] = IdlePass]
        live == Reachable(failed1, passEnd)
    IN  /\ p.active
        /\ IF p.i + 1 <= Len(p.arr)
           THEN /\ pass' = [pass EXCEPT ![c] =
                              [p EXCEPT !.i = @ + 1, !.failed = failed1,
                                        !.posts = Append(@, p.arr[p.i + 1]),
                                        !.results = results1]]
                /\ retryCount' = rc1
                /\ sends' = Sent(sends, p.arr[p.i + 1])
                /\ lastOp' = NoOp
                /\ UNCHANGED <<cache, timestamp, storage>>
           ELSE /\ cache' = failed1
                /\ retryCount' = Collect(rc1, live)
                /\ timestamp' = Collect(timestamp, live)
                /\ SaveCacheToDisk(failed1, timestamp, rc1)
                /\ pass' = passEnd
                /\ sends' = Collect(sends, live \cup
                                    OnDisk(FileAfterSave(failed1, timestamp, rc1)))
                /\ lastOp' = [NoOp EXCEPT !.op = "retryEnd", !.start = p.start,
                                          !.posts = p.posts, !.results = results1,
                                          !.counts = [k \in 1..Len(p.posts) |->
                                                        sends[p.posts[k]]],
                                          !.before = p.before]
        /\ UNCHANGED <<config, diskOk, inflight, now, nextId, cachedLog, pure>>

RetryResponse(c) == RetryResponseBody(c) /\ UNCHANGED others

\* ------------------------------------------------ process exit and restart
\* The process ends at any point (SIGINT/SIGTERM handler, crash): what was
\* suspended is gone.  The next process constructs a Reporter over the same
\* directory, which loads the file.
RestartBody ==
  LET loaded == LoadCacheFromDisk(disk)
      at(x)  == CHOOSE i \in 1..Len(loaded) : loaded[i].payload = x
      has(x) == \E i \in 1..Len(loaded) : loaded[i].payload = x
  IN  /\ cache' = [i \in 1..Len(loaded) |-> loaded[i].payload]
      /\ retryCount' = [x \in Ids |-> IF has(x) THEN loaded[at(x)].retryCount ELSE 0]
      /\ timestamp' = [x \in Ids |-> IF has(x) THEN loaded[at(x)].timestamp ELSE 0]
      /\ inflight' = {}
      /\ pass' = [c \in Callers |-> IdlePass]
      /\ sends' = Collect(sends, OnDisk(disk))
      /\ writeLost' = FALSE
      /\ cachedLog' = <<>>
      /\ pure' = (Len(loaded) = 0)
      /\ lastOp' = [NoOp EXCEPT !.op = "construct"]
      /\ UNCHANGED <<config, disk, lastSaved, diskOk, now, nextId>>

\* In the specifications of the cache the identity file exists and is read
\* back unchanged by every constructor: the identity stays what it is.
Restart == RestartBody /\ UNCHANGED others

\* -------------------------------------------------------------- environment
\* fs.writeFileSync starts to throw (disk full, permissions) ...
DiskFail ==
  /\ diskOk
  /\ diskOk' = FALSE
  /\ UNCHANGED <<config, memory, storage, calls, now, nextId, sends,
                 cachedLog, pure, lastOp, others>>

\* ... and works again.
DiskRecover ==
  /\ ~diskOk
  /\ diskOk' = TRUE
  /\ UNCHANGED <<config, memory, storage, calls, now, nextId, sends,
                 cachedLog, pure, lastOp, others>>

\* ------------------------------------------------ MonitorClient (index.ts)
TimerIds == 1..MaxTimers

\* What a step of the client outside the Reporter leaves alone.
reporterState == <<config, memory, storage, diskOk, calls, now, nextId, sends,
                   cachedLog, pure>>

OutsideReporter == UNCHANGED reporterState /\ lastOp' = NoOp

\* lastCycle after a step nothing is recorded about.  A step of start() or
\* stop() records whether the call threw to its caller.
NoCycle == [op |-> "none", threw |-> FALSE]

\* start() calls that have not returned: suspended at collectStaticInfo(), at
\* an await of the startup retry pass, or about to go on after it.
Starting == starting + resuming + (IF pass["start"].active THEN 1 ELSE 0)

\* collectAndReport() calls that have not returned: suspended at
\* collectDynamicStatus() or at report().
InFlight == collecting + Cardinality(inflight)

\* setInterval returns a timer that is not armed yet.
NewTimer == CHOOSE t \in TimerIds \ timers : \A u \in TimerIds \ timers : t <= u

\* A new MonitorClient: isRunning = false, intervalId = null.
InitClient ==
  /\ isRunning = FALSE
  /\ intervalId = 0
  /\ timers = {}
  /\ staticInfo = FALSE
  /\ starting = 0
  /\ resuming = 0
  /\ collecting = 0
  /\ lastCycle = NoCycle

\* start() is called: it returns with a warning when the client is running,
\* and otherwise runs up to await this.collector.collectStaticInfo().
StartCall ==
  /\ Starting < MaxStarts
  /\ IF isRunning
     THEN /\ lastCycle' = [NoCycle EXCEPT !.op = "startWarn"]
          /\ UNCHANGED starting
     ELSE /\ starting' = starting + 1
          /\ lastCycle' = [NoCycle EXCEPT !.op = "startBegin"]
  /\ OutsideReporter
  /\ UNCHANGED <<isRunning, intervalId, timers, staticInfo, resuming, collecting,
                 identity, tracker, settings>>

\* A faulty start(), which starts the loop although collectStaticInfo() failed.
StartStaticFailRunsOn ==
  /\ starting > 0
  /\ TimerIds \ timers # {}
  /\ starting' = starting - 1
  /\ isRunning' = TRUE
  /\ timers' = timers \cup {NewTimer}
  /\ intervalId' = NewTimer
  /\ lastCycle' = [NoCycle EXCEPT !.op = "startFailed", !.threw = TRUE]
  /\ OutsideReporter
  /\ UNCHANGED <<staticInfo, resuming, collecting,
                 identity, tracker, settings>>

\* collectStaticInfo() rejects: the catch of start() logs and rethrows.
StartStaticFail ==
  /\ starting > 0
  /\ starting' = starting - 1
  /\ lastCycle' = [NoCycle EXCEPT !.op = "startFailed", !.threw = TRUE]
  /\ OutsideReporter
  /\ UNCHANGED <<isRunning, intervalId, timers, staticInfo, resuming, collecting,
                 identity, tracker, settings>>

\* Where start() is once retryCachedReports() has run up to its first await, or
\* to its return when the cache is empty.
ResumingAfter(p) == IF p.active THEN resuming ELSE resuming + 1

\* collectStaticInfo() resolves: setStaticInfo, then retryCachedReports().
StartStaticOk ==
  /\ starting > 0
  /\ starting' = starting - 1
  /\ staticInfo' = TRUE
  /\ RetryBeginBody("start")
  /\ resuming' = ResumingAfter(pass'["start"])
  /\ lastCycle' = [NoCycle EXCEPT !.op = "startStatic"]
  /\ UNCHANGED <<isRunning, intervalId, timers, collecting,
                 identity, tracker, settings>>

\* An await of the startup retry pass resumes; when the pass ends, start() is
\* ready to go on.
StartRetryResponse ==
  /\ RetryResponseBody("start")
  /\ resuming' = ResumingAfter(pass'["start"])
  /\ lastCycle' = [NoCycle EXCEPT !.op = "startRetry"]
  /\ UNCHANGED <<isRunning, intervalId, timers, staticInfo, starting, collecting,
                 identity, tracker, settings>>

\* start() goes on after the retry pass: isRunning = true, then
\* startReportingLoop(): collectAndReport() runs up to its first await, then
\* setInterval arms a timer and intervalId holds it.
StartResume ==
  /\ resuming > 0
  /\ TimerIds \ timers # {}
  /\ InFlight < MaxCycles
  /\ resuming' = resuming - 1
  /\ isRunning' = TRUE
  /\ collecting' = collecting + 1
  /\ timers' = timers \cup {NewTimer}
  /\ intervalId' = NewTimer
  /\ lastCycle' = [NoCycle EXCEPT !.op = "startOk"]
  /\ OutsideReporter
  /\ UNCHANGED <<staticInfo, starting,
                 identity, tracker, settings>>

\* A faulty stop(), which forgets clearInterval.
StopKeepsTimer ==
  /\ IF ~isRunning
     THEN /\ lastCycle' = [NoCycle EXCEPT !.op = "stopWarn"]
          /\ UNCHANGED <<isRunning, intervalId>>
     ELSE /\ intervalId' = 0
          /\ isRunning' = FALSE
          /\ lastCycle' = [NoCycle EXCEPT !.op = "stop"]
  /\ OutsideReporter
  /\ UNCHANGED <<timers, staticInfo, starting, resuming, collecting,
                 identity, tracker, settings>>

\* stop(): a warning when the client is not running; otherwise clearInterval
\* of the timer intervalId holds, intervalId = null, isRunning = false.
Stop ==
  /\ IF ~isRunning
     THEN /\ lastCycle' = [NoCycle EXCEPT !.op = "stopWarn"]
          /\ UNCHANGED <<isRunning, intervalId, timers>>
     ELSE /\ timers' = IF intervalId # 0 THEN timers \ {intervalId} ELSE timers
          /\ intervalId' = 0
          /\ isRunning' = FALSE
          /\ lastCycle' = [NoCycle EXCEPT !.op = "stop"]
  /\ OutsideReporter
  /\ UNCHANGED <<staticInfo, starting, resuming, collecting,
                 identity, tracker, settings>>

\* An armed timer fires: the callback calls collectAndReport(), which runs up
\* to await this.collector.collectDynamicStatus().
Tick ==
  /\ timers # {}
  /\ InFlight < MaxCycles
  /\ collecting' = collecting + 1
  /\ lastCycle' = [NoCycle EXCEPT !.op = "tick"]
  /\ OutsideReporter
  /\ UNCHANGED <<isRunning, intervalId, timers, staticInfo, starting, resuming,
                 identity, tracker, settings>>

\* A faulty cycle, whose collection error stops the loop.
CycleCollectFailStops ==
  /\ collecting > 0
  /\ collecting' = collecting - 1
  /\ isRunning' = FALSE
  /\ lastCycle' = [NoCycle EXCEPT !.op = "collectFail"]
  /\ OutsideReporter
  /\ UNCHANGED <<intervalId, timers, staticInfo, starting, resuming,
                 identity, tracker, settings>>

\* A faulty cycle, which caches a payload although collection failed.
CycleCollectFailCaches ==
  /\ collecting > 0
  /\ nextId <= MaxPayloads
  /\ collecting' = collecting - 1
  /\ CacheFailedReportBody(nextId, "cache", 0, FALSE)
  /\ nextId' = nextId + 1
  /\ lastCycle' = [NoCycle EXCEPT !.op = "collectFail"]
  /\ UNCHANGED <<inflight, isRunning, intervalId, timers, staticInfo, starting,
                 resuming,
                 identity, tracker, settings>>

\* collectDynamicStatus() rejects: the catch of collectAndReport logs it.
CycleCollectFail ==
  /\ collecting > 0
  /\ collecting' = collecting - 1
  /\ lastCycle' = [NoCycle EXCEPT !.op = "collectFail"]
  /\ OutsideReporter
  /\ UNCHANGED <<isRunning, intervalId, timers, staticInfo, starting, resuming,
                 identity, tracker, settings>>

\* collectDynamicStatus() resolves: buildPayload (which throws when the static
\* info is not set; the catch logs it), then report() up to its await.
CycleCollectOk ==
  /\ collecting > 0
  /\ collecting' = collecting - 1
  /\ IF staticInfo
     THEN /\ ReportBeginBody
          /\ lastCycle' = [NoCycle EXCEPT !.op = "collectOk"]
     ELSE /\ lastCycle' = [NoCycle EXCEPT !.op = "buildFail"]
          /\ OutsideReporter
  /\ UNCHANGED <<isRunning, intervalId, timers, staticInfo, starting, resuming,
                 identity, tracker, settings>>

\* report() of a cycle resolves.
CycleDeliverOk ==
  /\ ReportOkBody
  /\ lastCycle' = [NoCycle EXCEPT !.op = "deliver"]
  /\ UNCHANGED <<isRunning, intervalId, timers, staticInfo, starting, resuming,
                 collecting,
                 identity, tracker, settings>>

\* report() of a cycle rejects, after caching the payload: the catch of
\* collectAndReport logs it.
CycleDeliverFail ==
  /\ ReportFailBody
  /\ lastCycle' = [NoCycle EXCEPT !.op = "deliver"]
  /\ UNCHANGED <<isRunning, intervalId, timers, staticInfo, starting, resuming,
                 collecting,
                 identity, tracker, settings>>

\* ------------------------------------- loadOrGenerateClientId(cacheDir)
\* A string is a sequence of characters: 0 is a white-space character, and
\* the token of the k-th uuidv4() call is one character k.  The token of an
\* earlier installation is OldToken.
Uuid(k) == <<k>>
OldToken == MaxUuids + 1

RECURSIVE TrimStart(_)
TrimStart(s) == IF s # <<>> /\ Head(s) = 0 THEN TrimStart(Tail(s)) ELSE s

RECURSIVE TrimEnd(_)
TrimEnd(s) ==
  IF s # <<>> /\ s[Len(s)] = 0 THEN TrimEnd(SubSeq(s, 1, Len(s) - 1)) ELSE s

\* String.prototype.trim
Trim(s) == TrimEnd(TrimStart(s))

AbsentFile == [state |-> "absent", text |-> <<>>]
TextFile(s) == [state |-> "ok", text |-> s]

\* What fails in a call: nothing, mkdirSync, readFileSync, writeFileSync
\* when it opens the file, writeFileSync after it has truncated the file.
Faults == {"none", "mkdir", "read", "open", "write"}

\* The catch block: a token that is not written anywhere.  n counts the
\* uuidv4() calls made so far.
FallbackRethrows(dir, file, n) ==
  [id |-> <<>>, dir |-> dir, file |-> file, uuids |-> n,
   failed |-> TRUE, threw |-> TRUE]

Fallback(dir, file, n) ==
  [id |-> Uuid(n + 1), dir |-> dir, file |-> file, uuids |-> n + 1,
   failed |-> TRUE, threw |-> FALSE]

\* Whether the stored id is returned: the file exists and its text, trimmed,
\* is not the empty string.
Usable(file) == file.state = "ok" /\ Trim(file.text) # <<>>

LoadOrGenerateClientIdAnew(dir, file, n, fault) ==
  IF ~dir /\ fault = "mkdir" THEN Fallback(FALSE, file, n)
  ELSE IF file.state = "ok" /\ fault = "read" THEN Fallback(TRUE, file, n)
  ELSE IF fault = "open" THEN Fallback(TRUE, file, n + 1)
  ELSE IF fault = "write" THEN Fallback(TRUE, TextFile(<<>>), n + 1)
  ELSE [id |-> Uuid(n + 1), dir |-> TRUE, file |-> TextFile(Uuid(n + 1)),
        uuids |-> n + 1, failed |-> FALSE, threw |-> FALSE]

\* The call over a directory (exists or not) and an id file, after n
\* uuidv4() calls, with what fails in it: the id it returns, the directory
\* and the file it leaves, and whether the catch block ran.
LoadOrGenerateClientId(dir, file, n, fault) ==
  IF ~dir /\ fault = "mkdir" THEN Fallback(FALSE, file, n)
  ELSE IF file.state = "ok" /\ fault = "read" THEN Fallback(TRUE, file, n)
  ELSE IF Usable(file)
    THEN [id |-> Trim(file.text), dir |-> TRUE, file |-> file, uuids |-> n,
          failed |-> FALSE, threw |-> FALSE]
  ELSE IF fault = "open" THEN Fallback(TRUE, file, n + 1)
  ELSE IF fault = "write" THEN Fallback(TRUE, TextFile(<<>>), n + 1)
  ELSE [id |-> Uuid(n + 1), dir |-> TRUE, file |-> TextFile(Uuid(n + 1)),
        uuids |-> n + 1, failed |-> FALSE, threw |-> FALSE]

NoIdOp == [op |-> "none", fault |-> "none", failed |-> FALSE, threw |-> FALSE]

\* The first usable content of the file, once there is one.
PersistedAfter(p, file) ==
  IF p = <<>> /\ Usable(file) THEN Trim(file.text) ELSE p

\* The identity part of the constructor, in a process that has made no
\* uuidv4() call of its own: tokens of different processes differ, so the
\* count goes on.
ConstructIdentity(fault) ==
  LET r == LoadOrGenerateClientId(dirExists, idFile, uuids, fault)
  IN  /\ fault # "none" => r.failed
      /\ r.uuids <= MaxUuids
      /\ clientId' = r.id
      /\ dirExists' = r.dir
      /\ idFile' = r.file
      /\ uuids' = r.uuids
      /\ payloadId' = <<>>
      /\ persistedId' = PersistedAfter(persistedId, r.file)
      /\ lastId' = [op |-> "construct", fault |-> fault, failed |-> r.failed,
                    threw |-> r.threw]

\* new Reporter(config, cacheDir) in a new process: the identity, then the
\* cache file; staticInfo is null again.
Construct ==
  /\ \E fault \in Faults : ConstructIdentity(fault)
  /\ RestartBody
  /\ staticInfo' = FALSE
  /\ UNCHANGED <<isRunning, intervalId, timers, starting, resuming,
                 collecting, lastCycle, tracker, settings>>

\* setStaticInfo(staticInfo)
SetStaticInfo ==
  /\ clientId # <<>>
  /\ staticInfo' = TRUE
  /\ lastId' = [NoIdOp EXCEPT !.op = "setStaticInfo"]
  /\ lastOp' = NoOp
  /\ UNCHANGED <<reporterState, isRunning, intervalId, timers, starting,
                 resuming, collecting, lastCycle, dirExists, idFile, clientId,
                 uuids, payloadId, persistedId, tracker, settings>>

BuildPayloadUnchecked ==
  /\ clientId # <<>>
  /\ payloadId' = clientId
  /\ lastId' = [NoIdOp EXCEPT !.op = "buildPayload"]
  /\ lastOp' = NoOp
  /\ UNCHANGED <<reporterState, client, dirExists, idFile, clientId, uuids,
                 persistedId, tracker, settings>>

\* buildPayload(dynamicStatus): throws while staticInfo is null, and else
\* returns a payload with clientId: this.clientId.
BuildPayload ==
  /\ clientId # <<>>
  /\ IF staticInfo
       THEN /\ payloadId' = clientId
            /\ lastId' = [NoIdOp EXCEPT !.op = "buildPayload"]
       ELSE /\ payloadId' = payloadId
            /\ lastId' = [NoIdOp EXCEPT !.op = "buildPayload", !.threw = TRUE]
  /\ lastOp' = NoOp
  /\ UNCHANGED <<reporterState, client, dirExists, idFile, clientId, uuids,
                 persistedId, tracker, settings>>

\* cacheFailedReport(payload) on the Reporter that was constructed, taken
\* where the cache directory exists (where it does not the write fails, as
\* after DiskFail).
CachePayload ==
  /\ clientId # <<>>
  /\ dirExists
  /\ nextId <= MaxPayloads
  /\ CacheFailedReportBody(nextId, "cache", 0, FALSE)
  /\ nextId' = nextId + 1
  /\ lastId' = NoIdOp
  /\ UNCHANGED <<inflight, client, dirExists, idFile, clientId, uuids,
                 payloadId, persistedId, tracker, settings>>

\* failed-reports.json stops being JSON: a write that failed after truncating
\* the file, or a file damaged between two processes.
CacheFileDamaged ==
  /\ disk.state = "ok"
  /\ disk' = [state |-> "invalid", text |-> <<>>]
  /\ writeLost' = TRUE
  /\ lastId' = NoIdOp
  /\ lastOp' = NoOp
  /\ UNCHANGED <<config, memory, lastSaved, diskOk, calls, now, nextId, sends,
                 cachedLog, pure, client, dirExists, idFile, clientId, uuids,
                 payloadId, persistedId, tracker, settings>>

\* The identity after the first Reporter was constructed in an empty
\* directory that works.
InitIdentity ==
  LET r == LoadOrGenerateClientId(TRUE, AbsentFile, 0, "none")
  IN  /\ dirExists = r.dir
      /\ idFile = r.file
      /\ clientId = r.id
      /\ uuids = r.uuids
      /\ payloadId = <<>>
      /\ persistedId = PersistedAfter(<<>>, r.file)
      /\ lastId = [op |-> "construct", fault |-> "none", failed |-> FALSE,
                   threw |-> FALSE]

\* What an operator, or an earlier installation, may have left before the
\* first process starts: no directory, an empty directory, an id file that
\* is empty or blank, an id followed by a line end.
FilesBefore ==
  {AbsentFile, TextFile(<<>>), TextFile(<<0>>), TextFile(<<OldToken, 0>>),
   TextFile(<<0, OldToken>>)}

\* Nothing constructed yet.
InitBefore ==
  /\ dirExists \in BOOLEAN
  /\ idFile \in (IF dirExists THEN FilesBefore ELSE {AbsentFile})
  /\ clientId = <<>>
  /\ uuids = 0
  /\ payloadId = <<>>
  /\ persistedId = PersistedAfter(<<>>, idFile)
  /\ lastId = NoIdOp

\* --------------------------------------- network throughput (collector)
\* The repository holds three SystemCollector classes that derive the rates:
\* part_003 (lastNetSnapshot, in collectDynamicStatus), part_004
\* (calculateNetworkSpeed) and SystemCollector.test.ts lines 264-329
\* (calculateNetworkSpeed over the active interfaces).
Impls == {"part_003", "part_004", "test"}

Bytes == 0..MaxBytes
Times == 0..MaxTime

\* What systeminformation reports at one sample: an external interface, if
\* there is one, up or down, with its cumulative counters, and the loopback
\* interface, if it is listed.
Eth(state, rx, tx) ==
  [iface |-> "eth0", operstate |-> state, internal |-> FALSE,
   rx_bytes |-> rx, tx_bytes |-> tx]

Lo ==
  [iface |-> "lo", operstate |-> "unknown", internal |-> TRUE,
   rx_bytes |-> 1, tx_bytes |-> 1]

Readings ==
  {e \o l : e \in {<<>>} \cup {<<Eth(st, rx, tx)>> :
                       st \in {"up", "down"}, rx \in Bytes, tx \in Bytes},
            l \in {<<>>, <<Lo>>}}

\* stats.reduce((sum, stat) => sum + (stat.rx_bytes || 0), 0), and for tx
RECURSIVE SumRx(_)
SumRx(stats) ==
  IF stats = <<>> THEN 0 ELSE Head(stats).rx_bytes + SumRx(Tail(stats))

RECURSIVE SumTx(_)
SumTx(stats) ==
  IF stats = <<>> THEN 0 ELSE Head(stats).tx_bytes + SumTx(Tail(stats))

\* A rate in bytes per second is a fraction in lowest terms.
RECURSIVE Gcd(_, _)
Gcd(a, b) == IF b = 0 THEN a ELSE Gcd(b, a % b)

Abs(x) == IF x < 0 THEN -x ELSE x

Zero == [num |-> 0, den |-> 1]

RatePerMs(delta, ms) ==
  LET g == Gcd(Abs(delta), ms)
  IN  [num |-> delta \div g, den |-> ms \div g]

\* delta / dt, with dt = ms / 1000 and ms > 0
Rate(delta, ms) ==
  LET g == Gcd(Abs(delta) * 1000, ms)
  IN  [num |-> (delta * 1000) \div g, den |-> ms \div g]

\* Math.max(0, r)
MaxZero(r) == IF r.num < 0 THEN Zero ELSE r

NoStats == [set |-> FALSE, rx |-> 0, tx |-> 0, time |-> 0]
Stats(rx, tx, t) == [set |-> TRUE, rx |-> rx, tx |-> tx, time |-> t]
NoRates == [upload |-> Zero, download |-> Zero]

\* part_003 lines 138-174: the interfaces that are up and not internal, their
\* counters summed; the rates against the last snapshot when time has
\* passed; the snapshot replaced.
Ifaces003(stats) ==
  SelectSeq(stats, LAMBDA i : i.operstate = "up" /\ ~i.internal)

NetSnapshot003(last, stats, t) ==
  LET totalRx == SumRx(Ifaces003(stats))
      totalTx == SumTx(Ifaces003(stats))
  IN  [rates |-> IF last.set /\ t - last.time > 0
                   THEN [upload |-> Rate(totalTx - last.tx, t - last.time),
                         download |-> Rate(totalRx - last.rx, t - last.time)]
                   ELSE NoRates,
       last |-> Stats(totalRx, totalTx, t)]

\* The derivation of part_004 over the interfaces it sums.
NetworkSpeed(last, stats, t) ==
  LET totalRx == SumRx(stats)
      totalTx == SumTx(stats)
  IN  IF stats = <<>> THEN [rates |-> NoRates, last |-> last]
      ELSE IF ~last.set
        THEN [rates |-> NoRates, last |-> Stats(totalRx, totalTx, t)]
      ELSE IF t - last.time <= 0 THEN [rates |-> NoRates, last |-> last]
      ELSE [rates |->
              [upload |-> MaxZero(Rate(totalTx - last.tx, t - last.time)),
               download |-> MaxZero(Rate(totalRx - last.rx, t - last.time))],
            last |-> Stats(totalRx, totalTx, t)]

\* part_004 lines 154-191: every interface of si.networkStats().
CalculateNetworkSpeed004(last, stats, t) == NetworkSpeed(last, stats, t)

\* SystemCollector.test.ts lines 264-329: the interfaces that are not
\* loopback and not down.
ActiveInterfaces(stats) ==
  SelectSeq(stats, LAMBDA i :
    /\ i.iface # "lo"
    /\ i.operstate \in {"up", "unknown"})

CalculateNetworkSpeedTest(last, stats, t) ==
  NetworkSpeed(last, ActiveInterfaces(stats), t)

\* The interfaces whose counters implementation i sums.
Counted(i, stats) ==
  CASE i = "part_003" -> Ifaces003(stats)
    [] i = "part_004" -> stats
    [] i = "test" -> ActiveInterfaces(stats)

Derive(i, last, stats, t) ==
  CASE i = "part_003" -> NetSnapshot003(last, stats, t)
    [] i = "part_004" -> CalculateNetworkSpeed004(last, stats, t)
    [] i = "test" -> CalculateNetworkSpeedTest(last, stats, t)

\* lastSample.n counts the derivations of the collector: 0, 1, 2, and then 3
\* and 4 in turn, so that every derivation changes it.
\* It keeps what the derivation was given: whether any interface was
\* counted, the totals of the counted ones, and the time.
NoSample == [n |-> 0, counted |-> FALSE, rx |-> 0, tx |-> 0, time |-> 0]

\* A new SystemCollector of implementation i.
InitTracker(i) ==
  /\ impl = i
  /\ lastNetworkStats = NoStats
  /\ netRates = NoRates
  /\ lastSample = NoSample

\* What a step of the collector leaves alone.
OutsideCollector ==
  /\ lastOp' = NoOp
  /\ UNCHANGED <<reporterState, client, identity, settings>>

\* collectDynamicStatus(): Date.now() is t and the interfaces report stats.
\* The clock may be set back between two samples.
CollectDynamicStatus ==
  \E stats \in Readings, t \in Times :
    LET r == Derive(impl, lastNetworkStats, stats, t)
    IN  /\ lastNetworkStats' = r.last
        /\ netRates' = r.rates
        /\ lastSample' = [n |-> IF lastSample.n < 4 THEN lastSample.n + 1 ELSE 3,
                          counted |-> Counted(impl, stats) # <<>>,
                          rx |-> SumRx(Counted(impl, stats)),
                          tx |-> SumTx(Counted(impl, stats)),
                          time |-> t]
        /\ impl' = impl
        /\ OutsideCollector

\* The process is restarted: new SystemCollector().
NewCollector ==
  /\ lastSample.n > 0
  /\ lastNetworkStats' = NoStats
  /\ netRates' = NoRates
  /\ lastSample' = NoSample
  /\ impl' = impl
  /\ OutsideCollector

\* ------------------------------------------------ ConfigManager (types.ts)
\* A JSON value of a field of config.json: a number, null, a string that is
\* not a number, or nothing (the field is absent).  clientName and clientTags
\* are kept by their kind.
Num(n) == [t |-> "number", v |-> n]
Null == [t |-> "null", v |-> 0]
NotANumber == [t |-> "string", v |-> 0]
Absent == [t |-> "absent", v |-> 0]

\* x < y of two values that are present: the operands become numbers, null
\* becomes 0, a string that is not a number becomes NaN, and a comparison
\* with NaN is false.  (Two strings are compared as strings: equal ones are
\* not less.)
Less(x, y) == x.t # "string" /\ y.t # "string" /\ x.v < y.v

\* x >= y, the same way.
AtLeast(x, y) == x.t # "string" /\ y.t # "string" /\ x.v >= y.v

Intervals == {0, 5000, 10000, 30000, 60000, 100000}
IntervalValues == {Absent, Null, NotANumber} \cup {Num(n) : n \in Intervals}

\* clientName: absent, '', '   ', a name, or a number in place of a string.
NameKinds == {"absent", "empty", "blank", "name", "number"}
\* clientTags: absent, an array, or a string in place of an array.
TagKinds == {"absent", "array", "string"}

Fields ==
  [clientName : NameKinds, clientTags : TagKinds,
   reportInterval : IntervalValues, minReportInterval : IntervalValues,
   maxRetries : {Absent, Num(5)}, cacheSize : {Absent, Num(0)}]

NoFields ==
  [clientName |-> "absent", clientTags |-> "absent", reportInterval |-> Absent,
   minReportInterval |-> Absent, maxRetries |-> Absent, cacheSize |-> Absent]

\* What is at configPath: no file, a file that cannot be read, text that is
\* not JSON, or an object with some of the fields.
ConfigFiles ==
  {[state |-> st, fields |-> NoFields] :
     st \in {"missing", "unreadable", "invalid"}}
    \cup {[state |-> "ok", fields |-> f] : f \in Fields}

getDefaultConfig ==
  [clientName |-> "hostname", clientTags |-> "array",
   reportInterval |-> Num(DefaultReportInterval),
   minReportInterval |-> Num(DefaultMinReportInterval),
   maxRetries |-> Num(DefaultMaxRetries), cacheSize |-> Num(DefaultCacheSize)]

\* { ...defaults, ...config }: a field the object has replaces the default.
Merged(partial) ==
  [clientName |-> IF partial.clientName = "absent" THEN "hostname"
                  ELSE partial.clientName,
   clientTags |-> IF partial.clientTags = "absent" THEN "array"
                  ELSE partial.clientTags,
   reportInterval |-> IF partial.reportInterval = Absent
                      THEN getDefaultConfig.reportInterval
                      ELSE partial.reportInterval,
   minReportInterval |-> IF partial.minReportInterval = Absent
                         THEN getDefaultConfig.minReportInterval
                         ELSE partial.minReportInterval,
   maxRetries |-> IF partial.maxRetries = Absent
                  THEN getDefaultConfig.maxRetries ELSE partial.maxRetries,
   cacheSize |-> IF partial.cacheSize = Absent
                 THEN getDefaultConfig.cacheSize ELSE partial.cacheSize]

\* !merged.clientName || merged.clientName.trim() === '': a number is not
\* falsy (0 apart) and has no trim method, the call throws a TypeError.
NameThrows(name) == name = "number"
NameAfter(name) == IF name \in {"empty", "blank"} THEN "hostname" ELSE name

\* if (merged.reportInterval < merged.minReportInterval)
\*   merged.reportInterval = merged.minReportInterval
IntervalAfter(m) ==
  IF Less(m.reportInterval, m.minReportInterval) THEN m.minReportInterval
  ELSE m.reportInterval

\* validateConfig(partial): the record and whether the call threw.
validateConfig(partial) ==
  LET m == Merged(partial)
  IN  IF NameThrows(m.clientName)
      THEN [threw |-> TRUE, value |-> getDefaultConfig]
      ELSE [threw |-> FALSE,
            value |-> [m EXCEPT !.clientName = NameAfter(@),
                                !.reportInterval = IntervalAfter(m),
                                !.clientTags = "array"]]

loadConfigOrThrow(file) ==
  IF file.state = "missing" THEN [threw |-> FALSE, value |-> getDefaultConfig]
  ELSE IF file.state \in {"unreadable", "invalid"}
    THEN [threw |-> TRUE, value |-> getDefaultConfig]
  ELSE validateConfig(file.fields)

\* loadConfig(): the default configuration when the file is missing, and
\* when readFileSync, JSON.parse or validateConfig throws.
loadConfig(file) ==
  IF file.state = "missing" THEN [threw |-> FALSE, value |-> getDefaultConfig]
  ELSE IF file.state \in {"unreadable", "invalid"}
    THEN [threw |-> FALSE, value |-> getDefaultConfig]
  ELSE [threw |-> FALSE, value |-> validateConfig(file.fields).value]

\* The delay setInterval uses: the number given when it is from 1 to
\* TimeoutMax, and 1 otherwise.
TimerDelay(x) ==
  IF x.t # "string" /\ x.v >= 1 /\ x.v <= TimeoutMax THEN x.v ELSE 1

NoConfig == [set |-> FALSE, threw |-> FALSE, value |-> getDefaultConfig]

\* A client that main() configured from no config file.
InitSettings ==
  /\ configFile = [state |-> "missing", fields |-> NoFields]
  /\ loadedConfig = [set |-> TRUE, threw |-> FALSE, value |-> getDefaultConfig]
  /\ armedDelay = 0

\* The MonitorClient constructor: this.config = configManager.loadConfig().
LoadClientConfig ==
  LET r == loadConfig(configFile)
  IN  /\ ~loadedConfig.set
      /\ loadedConfig' = [set |-> TRUE, threw |-> r.threw, value |-> r.value]
      /\ lastOp' = NoOp
      /\ UNCHANGED <<configFile, armedDelay, reporterState, client, identity,
                     tracker>>

\* startReportingLoop(): setInterval(..., this.config.reportInterval)
ArmReportingTimer ==
  /\ loadedConfig.set /\ ~loadedConfig.threw
  /\ armedDelay = 0
  /\ armedDelay' = TimerDelay(loadedConfig.value.reportInterval)
  /\ lastOp' = NoOp
  /\ UNCHANGED <<configFile, loadedConfig, reporterState, client, identity,
                 tracker>>

\* The process ends; config.json stays what it is for the next one.
ExitProcess ==
  /\ loadedConfig.set
  /\ configFile' = configFile
  /\ loadedConfig' = NoConfig
  /\ armedDelay' = 0
  /\ lastOp' = NoOp
  /\ UNCHANGED <<reporterState, client, identity, tracker>>

\* ------------------------------------------------------------ specification
\* A new Reporter in an empty cache directory.
InitReporter ==
  /\ cacheSize \in 0..MaxCacheSize
  /\ maxRetries \in 0..MaxRetriesCfg
  /\ cache = <<>>
  /\ retryCount = [x \in Ids |-> 0]
  /\ timestamp = [x \in Ids |-> 0]
  /\ disk = [state |-> "absent", text |-> <<>>]
  /\ diskOk = TRUE
  /\ inflight = {}
  /\ pass = [c \in Callers |-> IdlePass]
  /\ now = 0
  /\ nextId = 1
  /\ sends = [x \in Ids |-> 0]
  /\ cachedLog = <<>>
  /\ pure = TRUE
  /\ lastSaved = <<>>
  /\ writeLost = FALSE
  /\ lastOp = [NoOp EXCEPT !.op = "construct"]
  /\ InitClient

\* The specifications of the Reporter and of the client take no sample of
\* the network counters.
Init ==
  InitReporter /\ InitIdentity /\ InitTracker("part_004") /\ InitSettings

\* The Reporter over storage that works: every operation may start while
\* others are suspended at an await, and the process may be restarted at any
\* point.
Next ==
  \/ CacheFailedReport
  \/ ClearCache
  \/ ReportBegin
  \/ ReportOk
  \/ ReportFail
  \/ \E c \in Callers : RetryBegin(c)
  \/ \E c \in Callers : RetryResponse(c)
  \/ Restart

Spec == Init /\ [][Next]_vars

\* One process whose caller awaits each operation before starting the next
\* (the way Reporter.test.ts drives it), over storage whose writes may fail.
Idle == inflight = {} /\ \A c \in Callers : ~pass[c].active

SeqCacheFailedReport == Idle /\ CacheFailedReport
SeqClearCache == Idle /\ ClearCache
SeqReportBegin == Idle /\ ReportBegin
SeqRetryBegin == Idle /\ \E c \in Callers : RetryBegin(c)
SeqRetryResponse == \E c \in Callers : RetryResponse(c)

NextSeq ==
  \/ SeqCacheFailedReport
  \/ SeqClearCache
  \/ SeqReportBegin
  \/ ReportOk
  \/ ReportFail
  \/ SeqRetryBegin
  \/ SeqRetryResponse
  \/ DiskFail
  \/ DiskRecover

SpecSeq == Init /\ [][NextSeq]_vars

\* The client: start() and stop() may be called at any time, timers fire at
\* any time, and every await resumes at any time.
NextClient ==
  \/ StartCall
  \/ StartStaticFail
  \/ StartStaticOk
  \/ StartRetryResponse
  \/ StartResume
  \/ Stop
  \/ Tick
  \/ CycleCollectFail
  \/ CycleCollectOk
  \/ CycleDeliverOk
  \/ CycleDeliverFail

\* The client as main() configures it.
InitClientRun == Init /\ cacheSize = MaxCacheSize /\ maxRetries = MaxRetriesCfg

SpecClient == InitClientRun /\ [][NextClient]_vars

\* Reporters constructed one after another, each in a new process, over one
\* cache directory in which any file-system call may fail; each builds
\* payloads.
NextId ==
  \/ Construct
  \/ SetStaticInfo
  \/ BuildPayload
  \/ CachePayload
  \/ CacheFileDamaged

InitId ==
  /\ InitReporter
  /\ cacheSize = MaxCacheSize
  /\ maxRetries = MaxRetriesCfg
  /\ InitBefore
  /\ InitTracker("part_004")
  /\ InitSettings

SpecId == InitId /\ [][NextId]_vars

\* One collector of each implementation, sampled at any times over any
\* counter readings.
NextNet ==
  \/ CollectDynamicStatus
  \/ NewCollector

InitNet ==
  /\ InitReporter
  /\ cacheSize = MaxCacheSize
  /\ maxRetries = MaxRetriesCfg
  /\ InitIdentity
  /\ \E i \in Impls : InitTracker(i)
  /\ InitSettings

SpecNet == InitNet /\ [][NextNet]_vars

\* Processes one after another over a config.json of any content, each
\* loading it and arming its reporting timer.
NextCfg ==
  \/ LoadClientConfig
  \/ ArmReportingTimer
  \/ ExitProcess

InitCfg ==
  /\ InitReporter
  /\ cacheSize = MaxCacheSize
  /\ maxRetries = MaxRetriesCfg
  /\ InitIdentity
  /\ InitTracker("part_004")
  /\ configFile \in ConfigFiles
  /\ loadedConfig = NoConfig
  /\ armedDelay = 0

SpecCfg == InitCfg /\ [][NextCfg]_vars

\* ============================================================== properties

\* The file, read back, is the in-memory collection: same entries, same order,
\* same timestamps and retry counters.
InSync == LoadCacheFromDisk(disk) = Entries(cache, timestamp, retryCount)

NoPassActive == \A c \in Callers : ~pass[c].active

\* C1: in every reachable state the number of cached entries is at most the
\* configured cacheSize, for every cacheSize >= 0.
C1_CacheWithinCapacity == Len(cache) <= cacheSize

\* C2: after caching payloads p1..pn, in that order and with nothing else done,
\* into an initially empty cache of capacity C with n > C, the cache holds
\* exactly the C most recently cached payloads, oldest first.
C2_HoldsMostRecent ==
  (pure /\ Len(cachedLog) > cacheSize) =>
     cache = SubSeq(cachedLog, Len(cachedLog) - cacheSize + 1, Len(cachedLog))

\* C3: a report() that gets a non-2xx status or no response has appended its
\* payload to the cache as the newest entry, with retryCount 0 and within the
\* capacity, and has thrown; a report() completes without throwing only on a
\* 2xx status.
C3_FailedReportIsCached ==
  /\ lastOp.op = "reportFail" =>
       /\ lastOp.threw
       /\ lastOp.status \notin 200..299
       /\ cacheSize >= 1 =>
            /\ Len(cache) >= 1
            /\ Len(cache) <= cacheSize
            /\ cache[Len(cache)] = lastOp.id
            /\ retryCount[lastOp.id] = 0
  /\ lastOp.op = "reportOk" => (~lastOp.threw /\ lastOp.status \in 200..299)

\* C3's case: a report answered with status 300 has been cached behind an
\* older entry.
C3_Witness ==
  /\ lastOp.op = "reportFail"
  /\ lastOp.status = 300
  /\ Len(cache) = 2
  /\ cache[2] = lastOp.id

\* C4: a report() answered with a 2xx status leaves the cache empty in memory
\* and on disk, whatever the backlog was (stated for the calls during which
\* the disk accepts writes).
C4_SuccessEmptiesCacheAndFile ==
  [][(lastOp'.op = "reportOk" /\ inflight' # inflight /\ diskOk /\ diskOk')
       => (cache' = <<>> /\ disk'.text = <<>>)]_vars

\* C5: a cached report is sent to the server in a retry POST before it leaves
\* the cache when deliveries succeed again: an entry that a successful report()
\* removes from the cache has been posted by a retry pass.
C5_ClearedEntriesWereRetried ==
  [][\A id \in Ids :
        (lastOp'.op = "reportOk" /\ InCache(id) /\ id \notin Range(cache'))
          => sends[id] > 0]_vars

\* C6: with maxRetries = M >= 1, an entry whose retry deliveries all fail is
\* still in the cache after each of its first M-1 retry passes and absent after
\* its M-th: after a pass, an entry whose post failed is in the cache exactly
\* when it has been posted fewer than M times.
C6_DroppedAtMaxRetries ==
  (maxRetries >= 1 /\ lastOp.op = "retryEnd") =>
     \A k \in 1..Len(lastOp.posts) :
        ~lastOp.results[k] =>
           (InCache(lastOp.posts[k]) <=> lastOp.counts[k] < maxRetries)

\* C6's case: with maxRetries = 2 an entry has survived its first failed pass
\* and is dropped by its second.
C6_Witness ==
  /\ maxRetries = 2
  /\ lastOp.op = "retryEnd"
  /\ Len(lastOp.posts) = 1
  /\ ~lastOp.results[1]
  /\ lastOp.counts[1] = 2
  /\ ~InCache(lastOp.posts[1])

\* C7: over its whole lifetime, restarts included, no cached entry is submitted
\* for retry delivery more than maxRetries times, for every maxRetries >= 0.
C7_AtMostMaxRetriesPosts == \A id \in Ids : sends[id] <= maxRetries

\* C8: a retry pass over a cache of N entries whose deliveries all succeed makes
\* exactly N posts, in cache order, and leaves the cache empty in memory and on
\* disk (stated for the passes during which the disk accepts writes).
C8_AllSucceedEmptiesCacheAndFile ==
  [][(lastOp'.op = "retryEnd" /\ diskOk /\ diskOk'
        /\ \A k \in 1..Len(lastOp'.results) : lastOp'.results[k])
       => (lastOp'.posts = lastOp'.start /\ cache' = <<>> /\ disk'.text = <<>>)]_vars

C10_FileEqualsMemoryAtEveryAwait == InSync

\* C10, amended: the file equals the in-memory collection whenever no retry
\* pass is suspended at an await, disk writes succeeding; what a pass changes
\* (retry counters, removals) reaches the file when the pass ends.
C10_FileEqualsMemoryOutsidePasses == NoPassActive => InSync

\* C10's case: a pass has ended and the counter it incremented is in memory
\* and in the file.
C10_Witness ==
  /\ lastOp.op = "retryEnd"
  /\ Len(cache) >= 1
  /\ retryCount[cache[1]] = 1
  /\ disk.state = "ok"
  /\ Len(disk.text) >= 1
  /\ disk.text[1][3] = 1

\* A step in which a cycle fails: collection rejects, buildPayload throws, or
\* report() rejects.
CycleFails ==
  \/ lastCycle'.op \in {"collectFail", "buildFail"}
  \/ lastCycle'.op = "deliver" /\ lastOp'.op = "reportFail"

\* C11: a failure inside a cycle does not propagate out of the cycle and does
\* not stop the loop: the step leaves isRunning, intervalId and the armed
\* timers as they were, and a Running client has its timer armed, so the next
\* tick runs a new cycle.
C11_CycleFailureKeepsLoop ==
  [][CycleFails =>
       /\ ~lastCycle'.threw
       /\ UNCHANGED <<isRunning, intervalId, timers>>
       /\ isRunning' => intervalId' \in timers']_vars

\* C11's case: after a delivery failed and its payload was cached, the client
\* is Running and a tick has begun a new cycle.
C11_Witness ==
  /\ lastCycle.op = "tick"
  /\ isRunning
  /\ Len(cache) >= 1
  /\ collecting = 1

\* C12: when collectStaticInfo() fails, start() throws and has done nothing
\* else: isRunning, the timers, the cycles and the Reporter (no retry pass) are
\* as before; and no other step of the client throws to its caller.
C12_StaticFailureIsFatal ==
  [][/\ lastCycle'.op = "startFailed" =>
          /\ lastCycle'.threw
          /\ UNCHANGED <<isRunning, intervalId, timers, staticInfo, resuming,
                         collecting, reporterState>>
     /\ lastCycle'.threw => lastCycle'.op = "startFailed"]_vars

\* C12's case: start() has failed on a client that holds a cached report, and
\* the client is not Running, has no timer, no cycle and no pass.
C12_Witness ==
  /\ lastCycle.op = "startFailed"
  /\ lastCycle.threw
  /\ ~isRunning
  /\ timers = {}
  /\ InFlight = 0
  /\ Len(cache) >= 1
  /\ sends[cache[1]] = 0

\* C13: in a successful start() static info is set, then one retry pass runs
\* to completion, then the loop is Running, a cycle begins and the timer is
\* armed; and no cycle's delivery begins before the startup retry pass has
\* completed: while the pass is suspended no report() is in flight.
C13_NoDeliveryDuringStartupPass ==
  pass["start"].active => inflight = {}

\* C14: start() on a Running client fails: the call throws to its caller.
C14_StartWhileRunningFails ==
  lastCycle.op = "startWarn" => lastCycle.threw

\* C15: stop() on a Running client cancels the timer the client holds and
\* leaves it Stopped, with the cache as it was; stop() on a Stopped client
\* changes nothing, so stop();stop() is stop().
C15_StopCancelsAndIsIdempotent ==
  [][/\ lastCycle'.op = "stop" =>
          /\ isRunning /\ ~isRunning'
          /\ intervalId \in timers
          /\ timers' = timers \ {intervalId}
          /\ intervalId' = 0
          /\ UNCHANGED <<staticInfo, starting, resuming, collecting,
                         reporterState>>
     /\ lastCycle'.op = "stopWarn" =>
          /\ ~isRunning
          /\ UNCHANGED <<isRunning, intervalId, timers, staticInfo, starting,
                         resuming, collecting, reporterState>>]_vars

\* C15's case: a second stop() on a client that ran, was stopped and holds a
\* cached report.
C15_Witness ==
  /\ lastCycle.op = "stopWarn"
  /\ staticInfo
  /\ ~isRunning
  /\ intervalId = 0
  /\ timers = {}
  /\ Len(cache) >= 1

\* C16: at most one collect-assemble-deliver cycle is in flight at any time.
C16_OneCycleInFlight == InFlight <= 1

\* C17: when dynamic collection fails the cycle ends there: no payload is
\* built, no report() is begun, and the cache is unchanged in memory and on
\* disk.
C17_CollectFailureLeavesCache ==
  [][lastCycle'.op = "collectFail" =>
       /\ collecting' = collecting - 1
       /\ UNCHANGED <<memory, disk, inflight, nextId, pass, sends>>]_vars

\* C17's case: a collection failed while the cache held a report.
C17_Witness ==
  /\ lastCycle.op = "collectFail"
  /\ Len(cache) >= 1
  /\ disk.state = "ok"
  /\ Len(disk.text) >= 1

\* C18: with working storage the identity is generated once and is stable.
\* Once client-id.txt holds a usable id it holds that id for ever; a Reporter
\* constructed with no file-system failure has that id as its clientId, makes
\* no uuidv4() call when the id was there before, and writes it when it was
\* not; no step other than a construction changes clientId, and a payload
\* that is built carries it.
C18_IdentityStable ==
  /\ [](persistedId # <<>> => Usable(idFile) /\ Trim(idFile.text) = persistedId)
  /\ [][/\ lastId'.op = "construct" /\ lastId'.fault = "none" =>
             /\ clientId' # <<>>
             /\ clientId' = persistedId'
             /\ persistedId # <<>> => uuids' = uuids
        /\ lastId'.op # "construct" => clientId' = clientId
        /\ lastId'.op = "buildPayload" /\ ~lastId'.threw =>
             payloadId' = clientId]_vars

\* A third Reporter: the first persisted its token, the second was given an
\* unpersisted one by a failure, the third reads the first one's and builds a
\* payload with it.
C18_Witness ==
  /\ lastId.op = "buildPayload" /\ ~lastId.threw
  /\ uuids >= 2
  /\ persistedId = Uuid(1)
  /\ clientId = Uuid(1)
  /\ payloadId = Uuid(1)

\* C19: a construction in which the directory cannot be created or the id
\* file cannot be read or written does not throw: the Reporter gets a token
\* of a new uuidv4() call, the file does not hold that token, and the
\* constructor goes on to load the cache file.
C19_IdentityFailureFallsBack ==
  [][lastId'.op = "construct" /\ lastId'.failed =>
       /\ ~lastId'.threw
       /\ uuids' > uuids
       /\ clientId' = Uuid(uuids')
       /\ ~(Usable(idFile') /\ Trim(idFile'.text) = clientId')
       /\ persistedId' = persistedId
       /\ lastOp'.op = "construct"]_vars

\* A Reporter constructed while the id file could not be written builds a
\* payload with a token that no file holds.
C19_Witness ==
  /\ lastId.op = "buildPayload" /\ ~lastId.threw
  /\ dirExists /\ ~Usable(idFile)
  /\ payloadId = clientId /\ clientId # <<>>

\* C20: every upload and download rate of a dynamic status is >= 0, whatever
\* the counters read, in each implementation of the repository.
C20_RatesNonNegative == netRates.upload.num >= 0 /\ netRates.download.num >= 0

\* A step that is a derivation.
Derivation == lastSample'.n # lastSample.n /\ lastSample'.n > 0

\* The first derivation of a collector returns (0,0) and stores its totals
\* and its time.
FirstStores ==
  /\ netRates' = NoRates
  /\ lastNetworkStats' = Stats(lastSample'.rx, lastSample'.tx,
                               lastSample'.time)

\* The second derivation, dt > 0 after the first and with no counter lower,
\* returns upload = T / dt and download = R / dt, dt in seconds.
SecondIsDeltaOverTime ==
  LET ms == lastSample'.time - lastSample.time
      R == lastSample'.rx - lastSample.rx
      T == lastSample'.tx - lastSample.tx
  IN  ms > 0 /\ R >= 0 /\ T >= 0 =>
        /\ netRates'.upload.num * ms = T * 1000 * netRates'.upload.den
        /\ netRates'.download.num * ms = R * 1000 * netRates'.download.den

C22_NoTimePassedStillStores ==
  [][/\ Derivation
     /\ lastNetworkStats.set
     /\ lastSample'.counted
     /\ lastSample'.time <= lastNetworkStats.time
     => /\ netRates' = NoRates
        /\ lastNetworkStats' = Stats(lastSample'.rx, lastSample'.tx,
                                     lastSample'.time)]_vars

\* C23: buildPayload throws exactly when static info has not been set on the
\* Reporter it is called on; when it has been set the call returns a payload
\* (which carries the Reporter's clientId); in both cases the cache, its
\* file, the identity and its file are what they were.
C23_BuildPayloadNeedsStaticInfo ==
  [][lastId'.op = "buildPayload" =>
       /\ lastId'.threw <=> ~staticInfo
       /\ ~lastId'.threw => payloadId' = clientId
       /\ UNCHANGED <<memory, disk, staticInfo, clientId, idFile, dirExists,
                      uuids, persistedId>>]_vars

\* C23's case: a Reporter that holds a cached report and has its static info
\* has built a payload, after an earlier Reporter over the same directory.
C23_Witness ==
  /\ lastId.op = "buildPayload" /\ ~lastId.threw
  /\ staticInfo
  /\ Len(cache) >= 1
  /\ uuids >= 2
  /\ payloadId = clientId

\* C24: whatever config.json holds, the loaded configuration has
\* reportInterval >= minReportInterval: a reportInterval below the minimum
\* is the minimum, one at or above it is what the file gave.
C24_IntervalAtLeastMinimum ==
  loadedConfig.set =>
    AtLeast(loadedConfig.value.reportInterval,
            loadedConfig.value.minReportInterval)

\* C25: the delay the reporting timer is armed with is never below 10000 ms,
\* whatever config.json holds.
C25_ArmedDelayAtLeastTenSeconds ==
  armedDelay # 0 => armedDelay >= DefaultMinReportInterval

\* What loadConfig() returned is the default configuration.
LoadedDefaults == loadedConfig.value = getDefaultConfig

\* A field other than reportInterval that the file does not have has its
\* default value.
MissingTakeDefaults ==
  LET f == configFile.fields
      v == loadedConfig.value
      d == getDefaultConfig
  IN  /\ f.clientName = "absent" => v.clientName = d.clientName
      /\ f.clientTags = "absent" => v.clientTags = d.clientTags
      /\ f.minReportInterval = Absent => v.minReportInterval = d.minReportInterval
      /\ f.maxRetries = Absent => v.maxRetries = d.maxRetries
      /\ f.cacheSize = Absent => v.cacheSize = d.cacheSize

Pick(s, ks) ==
  LET idx == SelectSeq([k \in 1..Len(s) |-> k], LAMBDA k : k \in ks)
  IN  [j \in 1..Len(idx) |-> s[idx[j]]]

\* C27: a retry pass over a cache [e1..eN] makes exactly one delivery attempt
\* per entry, in cache order, and leaves as the new cache exactly the entries
\* whose attempt failed and whose incremented retryCount is below maxRetries,
\* in their original relative order, each with retryCount one more than it was
\* when the pass began; entries whose attempt succeeded are removed.
C27_PassKeepsFailedBelowMaxInOrder ==
  lastOp.op = "retryEnd" =>
    LET N == Len(lastOp.start)
    IN  /\ lastOp.posts = lastOp.start
        /\ Len(lastOp.results) = N
        /\ Len(lastOp.before) = N
        /\ cache = Pick(lastOp.start,
                        {k \in 1..N : /\ ~lastOp.results[k]
                                      /\ lastOp.before[k] + 1 < maxRetries})
        /\ \A k \in 1..N :
              InCache(lastOp.start[k]) =>
                 retryCount[lastOp.start[k]] = lastOp.before[k] + 1

\* C27's case: a pass over two entries whose attempts both failed has dropped
\* the first, which was on its last retry, and kept the second with its
\* counter raised from 0 to 1.
C27_Witness ==
  /\ maxRetries = 2
  /\ lastOp.op = "retryEnd"
  /\ lastOp.start = <<1, 2>>
  /\ lastOp.posts = <<1, 2>>
  /\ lastOp.results = <<FALSE, FALSE>>
  /\ lastOp.before = <<1, 0>>
  /\ cache = <<2>>
  /\ retryCount[2] = 1

\* a is a sub-sequence of b: b with some elements left out.
RECURSIVE IsSubSeq(_, _)
IsSubSeq(a, b) ==
  IF a = <<>> THEN TRUE
  ELSE IF b = <<>> THEN FALSE
  ELSE IF Head(a) = Head(b) THEN IsSubSeq(Tail(a), Tail(b))
  ELSE IsSubSeq(a, Tail(b))

\* A step of retryCachedReports(): the call up to its first await, or one of
\* its awaits resuming.
PassStep ==
  /\ lastOp'.op # "construct"
  /\ \/ ~pass["start"].active /\ pass'["start"].active
     \/ /\ pass["start"].active
        /\ \/ ~pass'["start"].active
           \/ pass'["start"].i = pass["start"].i + 1

\* C28: a failed retry delivery of a cached entry never creates a cache entry:
\* no step of a retry pass adds an entry (none is built, none is cached), the
\* cache is untouched until the pass ends and is then a sub-sequence of the
\* cache before it; and a successful retry of one entry does not clear the
\* others: every entry whose own attempt failed below maxRetries is still there.
C28_PassAddsNoEntries ==
  [][PassStep =>
       /\ nextId' = nextId
       /\ inflight' = inflight
       /\ IsSubSeq(cache', cache)
       /\ pass'["start"].active => cache' = cache
       /\ (pass["start"].active /\ ~pass'["start"].active) =>
             /\ IsSubSeq(cache', lastOp'.start)
             /\ \A k \in 1..Len(lastOp'.start) :
                   (/\ ~lastOp'.results[k]
                    /\ lastOp'.before[k] + 1 < maxRetries)
                     => lastOp'.start[k] \in Range(cache')]_vars

\* C28's case: in a pass over two entries the first failed and was kept, the
\* second was delivered, and the first is still cached.
C28_Witness ==
  /\ lastOp.op = "retryEnd"
  /\ lastOp.start = <<1, 2>>
  /\ lastOp.results = <<FALSE, TRUE>>
  /\ cache = <<1>>
  /\ nextId = 3

\* C29: retries happen only at startup and are never interleaved with periodic
\* cycles, for every sequence of start() and stop() calls: while a retry pass
\* is in progress no collectAndReport() cycle is in flight (none is suspended
\* at collectDynamicStatus() or at report()), and a pass begins only while the
\* loop is not Running.
C29_NoCycleDuringRetryPass ==
  /\ [](pass["start"].active => InFlight = 0)
  /\ [][(~pass["start"].active /\ pass'["start"].active) => ~isRunning]_vars

\* Entry id is not in the cache before the step and is in it after.
Enters(id) == ~InCache(id) /\ id \in Range(cache')

\* Entry id is in the cache before the step and is not in it after.
Leaves(id) == InCache(id) /\ id \notin Range(cache')

\* The step is the catch of a report() whose payload id was built for it.
FreshDeliveryFailed(id) ==
  /\ id \in inflight
  /\ lastOp'.op = "reportFail"
  /\ lastOp'.id = id

\* The step ends a retry pass that posted entry id and got a 2xx response.
RetryDelivered(id) ==
  /\ pass["start"].active
  /\ lastOp'.op = "retryEnd"
  /\ \E k \in 1..Len(lastOp'.posts) :
        lastOp'.posts[k] = id /\ lastOp'.results[k]

\* The step ends a retry pass in which the post of entry id failed and its
\* retryCount reached maxRetries (the last entry's increment is in this step).
RetryExhausted(id) ==
  /\ pass["start"].active
  /\ lastOp'.op = "retryEnd"
  /\ \E k \in 1..Len(lastOp'.posts) :
        /\ lastOp'.posts[k] = id
        /\ ~lastOp'.results[k]
        /\ (IF k = Len(lastOp'.posts) THEN retryCount[id] + 1
                                      ELSE retryCount[id]) >= maxRetries

\* The step caches a payload, the cache overflows and entry id is among the
\* oldest entries that slice(-cacheSize) leaves out.
EvictedAsOldest(id) ==
  /\ lastOp'.op \in {"reportFail", "cache"}
  /\ Len(cache) + 1 > cacheSize
  /\ \E k \in 1..Len(cache) :
        cache[k] = id /\ k <= Len(cache) + 1 - cacheSize

\* The step is a report() that got a 2xx response and cleared the cache.
ClearedAfterDelivery(id) == lastOp'.op = "reportOk"

\* C30: an entry is created only when delivery of a freshly built payload
\* fails, and leaves the cache only by its own successful retry delivery, by
\* its retry counter reaching maxRetries, by eviction as the oldest entry on
\* capacity overflow, or by the clear after a successful direct delivery; no
\* other operation or interleaving of operations removes an entry.
C30_EntryLifecycle ==
  [][\A id \in Ids :
       /\ Enters(id) => FreshDeliveryFailed(id)
       /\ Leaves(id) => \/ RetryDelivered(id)
                        \/ RetryExhausted(id)
                        \/ EvictedAsOldest(id)
                        \/ ClearedAfterDelivery(id)]_vars

\* C31: every entry is created with retryCount 0, its retryCount never
\* decreases while it is cached, and every entry in the cache between
\* operations (no report() and no retry pass suspended) has
\* retryCount < maxRetries, for every maxRetries >= 0, entries reloaded from
\* disk included.
C31_RetryCountBelowMax ==
  /\ [](Idle => \A id \in Range(cache) : retryCount[id] < maxRetries)
  /\ [][\A id \in Ids :
          /\ (Enters(id) /\ lastOp'.op \in {"reportFail", "cache"})
                => retryCount'[id] = 0
          /\ (InCache(id) /\ id \in Range(cache'))
                => retryCount'[id] >= retryCount[id]]_vars

\* A step of the Reporter, not of the file system.
ReporterStep == diskOk' = diskOk

\* C32: when the disk write fails during a cache mutation the operation does
\* not raise and the mutation takes effect in memory: a payload cached while
\* writeFileSync throws is the newest entry of the cache although the file is
\* unchanged; it stays eligible for retry (a pass that begins iterates the whole
\* in-memory cache) and for clear (a clear empties the in-memory cache),
\* whether or not the file holds it.
C32_FailedWriteKeepsMutation ==
  [][ReporterStep =>
       /\ (lastOp'.op \in {"cache", "reportFail"} /\ ~diskOk) =>
             /\ disk' = disk
             /\ Len(cache') >= 1
             /\ cache'[Len(cache')] = lastOp'.id
             /\ lastOp'.op = "cache" => ~lastOp'.threw
       /\ (~pass["start"].active /\ pass'["start"].active) =>
             /\ pass'["start"].arr = cache
             /\ cache' = cache
       /\ lastOp'.op \in {"clear", "reportOk"} => cache' = <<>>]_vars

\* C32's case: a payload was cached while no write had ever succeeded (there
\* is no file), and a retry pass in the same process has posted it.
C32_Witness ==
  /\ ~diskOk
  /\ disk.state = "absent"
  /\ lastOp.op = "retryEnd"
  /\ lastOp.posts = <<1>>

\* C33: loading at construction never fails: when the cache file is missing
\* or cannot be parsed the Reporter starts with an empty cache; otherwise it
\* starts with exactly the persisted entries (payloads, order, timestamps,
\* retry counters as the file holds them).
C33_LoadNeverFails ==
  [][lastId'.op = "construct" =>
       /\ ~lastOp'.threw
       /\ lastOp'.op = "construct"
       /\ disk' = disk
       /\ disk.state \in {"absent", "invalid"} => cache' = <<>>
       /\ disk.state = "ok" =>
             /\ Entries(cache', timestamp', retryCount') = Parse(disk.text)
             /\ Len(cache') = Len(disk.text)]_vars

\* C33's case: a Reporter constructed over a file that is not JSON has started
\* with an empty cache, the file still there.
C33_Witness ==
  /\ lastId.op = "construct"
  /\ disk.state = "invalid"
  /\ cache = <<>>

\* C34: after clearCache() completes with a working disk, the in-memory
\* collection and the persisted collection are both empty, whatever memory and
\* file held before the call, also when they had diverged after a failed write.
C34_ClearEmptiesMemoryAndFile ==
  [][(lastOp'.op = "clear" /\ ReporterStep /\ diskOk)
       => (cache' = <<>> /\ LoadCacheFromDisk(disk') = <<>>)]_vars

\* C35: at any time at most one recurring report timer is armed per client,
\* and every armed timer is cancelled by the next stop(): after a stop() that
\* found the client Running no timer is armed; for every interleaving of
\* start() and stop() calls, a second start() issued while an earlier one is
\* still awaiting collectStaticInfo() or the startup retry pass included.
C35_OneTimerAndStopCancelsAll ==
  /\ [](Cardinality(timers) <= 1)
  /\ [][lastCycle'.op = "stop" => timers' = {}]_vars

\* C36: once stop() has returned and no start() is called afterwards, the
\* client initiates no further HTTP delivery attempt, arms no timer and does
\* not modify the report cache (memory or disk), whether stop() was called
\* while Running, while a cycle was in flight or while start() was in its
\* startup phase.  Stated for the step that follows a stop(): unless it is a
\* call of start() or stop(), it posts nothing, arms nothing and leaves the
\* cache and the file as they are.
C36_QuietAfterStop ==
  [][(/\ lastCycle.op \in {"stop", "stopWarn"}
      /\ lastCycle'.op \notin {"startBegin", "startWarn", "stop", "stopWarn"})
       => /\ inflight' \subseteq inflight
          /\ pass'["start"].posts = pass["start"].posts
          /\ timers' \subseteq timers
          /\ cache' = cache
          /\ retryCount' = retryCount
          /\ disk' = disk]_vars

\* C37: a cached entry whose retry delivery succeeded is never sent again, also
\* when the process exits and restarts at any point during or after the pass:
\* a delivered entry is not reloaded from disk (every entry a new process loads
\* is posted by its startup pass).  When a new Reporter is constructed, no
\* entry that the pass of the previous process had delivered is in its cache.
C37_DeliveredNotReloaded ==
  [][lastOp'.op = "construct" =>
       \A k \in 1..Len(pass["start"].results) :
          pass["start"].results[k] =>
             pass["start"].posts[k] \notin Range(cache')]_vars

\* C38: a payload that a failed report() caches while a retry pass is in
\* flight is not lost when the pass completes: an entry that was not in the
\* cache the pass started from and is in the cache when the pass ends is still
\* there afterwards, unless the pass itself delivered it or dropped it at
\* maxRetries; the final this.cache = failedReports does not overwrite it.
C38_CachedDuringPassSurvives ==
  [][(pass["start"].active /\ lastOp'.op = "retryEnd") =>
       \A id \in Range(cache) \ Range(pass["start"].start) :
          \/ id \in Range(cache')
          \/ RetryDelivered(id)
          \/ RetryExhausted(id)]_vars

====
